---- MODULE Spec2Model ----
(***************************************************************************)
(* Model of the Tilda book scraper's scrape controller (src/src/scrape.ts, *)
(* lines 1-543) and of the utilities it calls (src/src/utils.ts).          *)
(*                                                                         *)
(* Strings are modelled as sequences of lexemes: "https:", "//", a host,   *)
(* "/", a path segment, ...  Concatenation is \o, equality is equality of  *)
(* sequences, startsWith looks at the first lexeme.  The value null of a   *)
(* `string | null` is the one-lexeme sequence Null, which no string of the *)
(* program contains.                                                       *)
(***************************************************************************)
EXTENDS Integers, Sequences, FiniteSets, TLC

(***************************************************************************)
(* Bounds of the model                                                     *)
(***************************************************************************)
\* largest number of links a start page yields
MaxLinks == 22

(***************************************************************************)
(* Program constants                                                       *)
(***************************************************************************)
TOC_LINK_THRESHOLD == 20

Null == <<"<null>">>
EmptyStr == <<>>

\* JavaScript truthiness of a string | null
Truthy(s) == s # Null /\ s # EmptyStr

Last(s) == s[Len(s)]

\* s.includes(p) on lexeme sequences
Includes(s, p) == \E k \in 1..(Len(s) - Len(p) + 1) : SubSeq(s, k, k + Len(p) - 1) = p

(***************************************************************************)
(* utils.ts: transformTildaImageUrl                                        *)
(***************************************************************************)
\* lexemes that contain the text 'tildacdn.com'
TildaCdnHosts == {"thb.tildacdn.com", "static.tildacdn.com"}
\* path segments matching tild[^/]+
TildSegments == {"tild1234", "tild5678"}

EmptyMarker == <<"/", "-", "/", "empty", "/">>

\* positions k where  /(tild[^/]+)/-/empty/(.+)$  matches starting at lexeme k
TildaMatchAt(url) ==
  { k \in 1..Len(url) :
      /\ k + 7 <= Len(url)
      /\ url[k] = "/"
      /\ url[k + 1] \in TildSegments
      /\ SubSeq(url, k + 2, k + 6) = EmptyMarker }

LeftMost(S) == CHOOSE k \in S : \A j \in S : k <= j

transformTildaImageUrl(url) ==
  IF (\E k \in 1..Len(url) : url[k] \in TildaCdnHosts) /\ Includes(url, EmptyMarker)
  THEN IF TildaMatchAt(url) # {}
       THEN LET k == LeftMost(TildaMatchAt(url))
            IN  <<"https:", "//", "static.tildacdn.com", "/", url[k + 1], "/">>
                  \o SubSeq(url, k + 7, Len(url))
       ELSE url
  ELSE url


(***************************************************************************)
(* Inputs: image URLs found on pages                                       *)
(***************************************************************************)
ThbUrl == <<"https:", "//", "thb.tildacdn.com", "/", "tild1234", "/", "-", "/", "empty", "/", "image.png">>
StaticUrl == <<"https:", "//", "static.tildacdn.com", "/", "tild1234", "/", "image.png">>
\* contains 'tildacdn.com' and '/-/empty/' but no tild... segment before the marker
OddUrl == <<"https:", "//", "thb.tildacdn.com", "/", "pic", "/", "-", "/", "empty", "/", "image.png">>
PlainUrl == <<"https:", "//", "example.com", "/", "image.png">>

(***************************************************************************)
(* scrape.ts: saveImage's file name                                        *)
(***************************************************************************)
RECURSIVE Digits(_)
\* n.toString() as a sequence of decimal digits
Digits(n) == IF n < 10 THEN <<n>> ELSE Digits(n \div 10) \o <<n % 10>>

RECURSIVE PadStart(_, _)
\* s.padStart(w, '0')
PadStart(s, w) == IF Len(s) >= w THEN s ELSE PadStart(<<0>> \o s, w)

\* `img-${index.toString().padStart(4, '0')}.jpg`
ImageFileName(index) == [prefix |-> "img-", digits |-> PadStart(Digits(index), 4), ext |-> ".jpg"]

NoFile == [prefix |-> "<null>", digits |-> <<>>, ext |-> ""]

(***************************************************************************)
(* State                                                                   *)
(***************************************************************************)
VARIABLES
  pc,           \* position of main()
  exitCode,     \* process exit status, NoExit while the process runs
  startUrl,     \* ScraperOptions.startUrl
  skipUrls,     \* ScraperOptions.skipUrls
  urlPattern,   \* ScraperOptions.urlPattern
  baseUrl,      \* main: baseUrl
  browserOpen,  \* a launched browser that has not been closed
  links,        \* main: links
  mode,         \* which branch of `links.length > TOC_LINK_THRESHOLD` was taken
  i,            \* TOC loop variable
  currentUrl,   \* navigation loop: currentUrl
  index,        \* navigation loop: index
  nextUrl,      \* navigation loop: nextUrl
  delays,       \* number of inter-chapter delays awaited
  extracted,    \* scrapeChapter: { title, html, imageUrls }
  downloads,    \* scrapeChapter: downloadPromises, one entry per unique image
  imageCounter, \* module-level imageCounter
  failedCount,  \* failedCount of the stats object the tests pass to downloadImage
  imageFiles,   \* image files written by sharp
  chapters,     \* meta.chapters
  chapterFiles, \* chapter files written, in order
  metaFile,     \* chapters serialised into meta.json, NoMeta while not written
  error,        \* what threw the error caught by main's catch block, "none" so far
  gotoLog,      \* URLs passed to scrapeChapter's page.goto, in order
  threw,        \* URLs whose scrapeChapter call threw
  lastDelay,    \* milliseconds of the latest inter-chapter delay, 0 before the first
  call,         \* the pure function applied on its own, "none" inside main
  args,         \* its arguments
  result,       \* what it returned
  installed,    \* setupSignalHandlers has put its listeners on SIGINT and SIGTERM
  isExiting,    \* utils: isExiting
  cleanupCallbacks, \* utils: cleanupCallbacks, each callback by how its call ends
  handlerCalls, \* calls of the signal handler that went past the isExiting test
  cbLog,        \* calls and settlements of cleanup callbacks, in order
  signalLog,    \* signals delivered to the process, in order
  killedBy,     \* the signal whose default action ended the process, "none" so far
  pipeArgv,     \* pipeline: process.argv.slice(2)
  pipePc,       \* pipeline: position of main(), "idle" outside the pipeline
  ran,          \* pipeline: descriptions of the steps passed to run(), in order
  complete,     \* pipeline: 'Pipeline complete!' has been printed
  pipeExit      \* pipeline: process exit status, NoExit while the process runs

vars == <<pc, exitCode, startUrl, skipUrls, urlPattern, baseUrl, browserOpen, links, mode,
          i, currentUrl, index, nextUrl, delays, extracted, downloads, imageCounter, failedCount, imageFiles,
          chapters, chapterFiles, metaFile, error, gotoLog, threw, lastDelay, call, args, result,
          installed, isExiting, cleanupCallbacks, handlerCalls, cbLog, signalLog, killedBy,
          pipeArgv, pipePc, ran, complete, pipeExit>>

\* the variables of the signal handling of utils
sigVars == <<installed, isExiting, cleanupCallbacks, handlerCalls, cbLog, signalLog, killedBy>>

\* the variables of the pipeline
pipeVars == <<pipeArgv, pipePc, ran, complete, pipeExit>>

\* the variables of a function applied on its own
fnVars == <<call, args, result>>

\* the variables of main() and of the module
scrapeVars == <<pc, exitCode, startUrl, skipUrls, urlPattern, baseUrl, browserOpen, links, mode,
                i, currentUrl, index, nextUrl, delays, extracted, downloads, imageCounter, failedCount,
                imageFiles, chapters, chapterFiles, metaFile, error, gotoLog, threw, lastDelay>>

NoExit == -1

\* utils at module load: no listener, no callback, isExiting false
InitSignals ==
  /\ installed = FALSE
  /\ isExiting = FALSE
  /\ cleanupCallbacks = <<>>
  /\ handlerCalls = <<>>
  /\ cbLog = <<>>
  /\ signalLog = <<>>
  /\ killedBy = "none"

\* no pipeline process
NoPipeline ==
  /\ pipeArgv = <<>>
  /\ pipePc = "idle"
  /\ ran = <<>>
  /\ complete = FALSE
  /\ pipeExit = NoExit
NoMeta == <<[index |-> -1, title |-> Null, url |-> Null, filename |-> Null]>>

mainVars == <<pc, exitCode, startUrl, skipUrls, urlPattern, baseUrl, browserOpen, links, mode,
              i, currentUrl, index, nextUrl, delays, extracted, chapters, chapterFiles, metaFile, error, gotoLog, threw,
              lastDelay, fnVars, sigVars, pipeVars>>

(***************************************************************************)
(* scrape.ts: downloadImage and saveImage, one step per await              *)
(***************************************************************************)
\* the call downloadImage(url, index) up to its first await: the fetch of the
\* transformed URL has been issued
NewDownload(url, idx, failedNow) ==
  [imgUrl |-> url, index |-> idx, actualUrl |-> transformTildaImageUrl(url),
   pc |-> "fetch", fetched |-> <<transformTildaImageUrl(url)>>, outcomes |-> <<>>,
   localFile |-> NoFile, failedAtCall |-> failedNow]

Settle(t, newPc, outcome, file) ==
  [downloads EXCEPT ![t].pc = newPc, ![t].outcomes = @ \o <<outcome>>, ![t].localFile = file]

\* AfterNotOk without any fallback
AfterNotOk_Never(d, t) == Settle(t, "done", "notok", NoFile)

\* AfterNotOk with the fallback fetching the transformed URL again
AfterNotOk_SameUrl(d, t) ==
  IF d.actualUrl # d.imgUrl
  THEN [Settle(t, "fallbackFetch", "notok", NoFile) EXCEPT ![t].fetched = @ \o <<d.actualUrl>>]
  ELSE Settle(t, "done", "notok", NoFile)

\* AfterNotOk without the test `actualUrl !== url`
AfterNotOk_Always(d, t) ==
  [Settle(t, "fallbackFetch", "notok", NoFile) EXCEPT ![t].fetched = @ \o <<d.imgUrl>>]

\* what follows `if (!response.ok)` when the first response is not ok
AfterNotOk(d, t) ==
  IF d.actualUrl # d.imgUrl
  THEN [Settle(t, "fallbackFetch", "notok", NoFile) EXCEPT ![t].fetched = @ \o <<d.imgUrl>>]
  ELSE Settle(t, "done", "notok", NoFile)

\* `await fetch(actualUrl)` settles
FetchSettles(t, outcome) ==
  /\ pc = "chapterAwait"
  /\ downloads[t].pc = "fetch"
  /\ downloads' = CASE outcome = "ok" -> Settle(t, "body", "ok", NoFile)
                    [] outcome = "notok" -> AfterNotOk(downloads[t], t)
                    [] OTHER -> Settle(t, "done", "reject", NoFile)
  /\ UNCHANGED <<mainVars, imageCounter, failedCount, imageFiles>>

\* `await response.arrayBuffer()` settles; on success saveImage starts
BodySettles(t, ok) ==
  /\ pc = "chapterAwait"
  /\ downloads[t].pc = "body"
  /\ downloads' = IF ok THEN Settle(t, "save", "body", NoFile)
                  ELSE Settle(t, "done", "bodyError", NoFile)
  /\ UNCHANGED <<mainVars, imageCounter, failedCount, imageFiles>>

\* `await fetch(url)` of the fallback settles
FallbackFetchSettles(t, outcome) ==
  /\ pc = "chapterAwait"
  /\ downloads[t].pc = "fallbackFetch"
  /\ downloads' = IF outcome = "ok" THEN Settle(t, "fallbackBody", "ok", NoFile)
                  ELSE Settle(t, "done", outcome, NoFile)
  /\ UNCHANGED <<mainVars, imageCounter, failedCount, imageFiles>>

\* `await fallbackResponse.arrayBuffer()` settles; on success saveImage starts
FallbackBodySettles(t, ok) ==
  /\ pc = "chapterAwait"
  /\ downloads[t].pc = "fallbackBody"
  /\ downloads' = IF ok THEN Settle(t, "save", "body", NoFile)
                  ELSE Settle(t, "done", "bodyError", NoFile)
  /\ UNCHANGED <<mainVars, imageCounter, failedCount, imageFiles>>

\* SaveSettles with the rejection of toFile escaping saveImage and downloadImage
SaveSettles_Throws(t, ok) ==
  /\ pc = "chapterAwait"
  /\ downloads[t].pc = "save"
  /\ IF ok
     THEN /\ downloads' = Settle(t, "done", "saved", ImageFileName(downloads[t].index))
          /\ imageFiles' = imageFiles \o <<ImageFileName(downloads[t].index)>>
          /\ UNCHANGED <<pc, exitCode, error, threw>>
     ELSE /\ downloads' = Settle(t, "done", "saveError", NoFile)
          /\ pc' = "exited"
          /\ exitCode' = 1
          /\ error' = "scrapeChapter"
          /\ threw' = threw \cup {IF mode = "toc" THEN links[i + 1] ELSE currentUrl}
          /\ UNCHANGED imageFiles
  /\ UNCHANGED <<lastDelay, fnVars, sigVars, pipeVars>>
  /\ UNCHANGED <<startUrl, skipUrls, urlPattern, baseUrl, browserOpen, links, mode, i, currentUrl,
                 index, nextUrl, delays, extracted, chapters, chapterFiles, metaFile, gotoLog,
                 imageCounter, failedCount>>

\* saveImage: sharp(...).toFile(filepath) settles
SaveSettles(t, ok) ==
  /\ pc = "chapterAwait"
  /\ downloads[t].pc = "save"
  /\ IF ok
     THEN /\ downloads' = Settle(t, "done", "saved", ImageFileName(downloads[t].index))
          /\ imageFiles' = imageFiles \o <<ImageFileName(downloads[t].index)>>
     ELSE /\ downloads' = Settle(t, "done", "saveError", NoFile)
          /\ UNCHANGED imageFiles
  /\ UNCHANGED <<mainVars, imageCounter, failedCount>>

FetchOutcomes == {"ok", "notok", "reject"}

ImageStep ==
  \E t \in 1..Len(downloads) :
    \/ \E o \in FetchOutcomes : FetchSettles(t, o)
    \/ \E ok \in BOOLEAN : BodySettles(t, ok)
    \/ \E o \in FetchOutcomes : FallbackFetchSettles(t, o)
    \/ \E ok \in BOOLEAN : FallbackBodySettles(t, ok)
    \/ \E ok \in BOOLEAN : SaveSettles(t, ok)

(***************************************************************************)
(* Inputs: command lines                                                   *)
(***************************************************************************)
SeedUrl == <<"https:", "//", "example.com", "/", "book">>
FtpUrl == <<"ftp:", "//", "example.com", "/", "book">>
BadUrl == <<"not-a-valid-url">>
StartUrls == {EmptyStr, BadUrl, FtpUrl, SeedUrl}

\* parseArgs results: --skip and --url-pattern
OptionSets ==
  { [skip |-> <<>>, pattern |-> Null],
    [skip |-> << <<"nomatch">>, <<"/", "ch", "3">> >>, pattern |-> Null],
    [skip |-> <<>>, pattern |-> <<"**", "/", "ch", "*">>],
    [skip |-> << <<"/", "ch", "2", "1">> >>, pattern |-> <<"https:", "//", "*", "/", "ch", "?", "?">>] }

(***************************************************************************)
(* WHATWG URL parsing as far as main uses it                               *)
(***************************************************************************)
Schemes == {"http:", "https:", "ftp:"}
SlashLexemes == {"/", "//"}

\* new URL(url) does not throw
UrlParses(url) == Len(url) >= 3 /\ url[1] \in Schemes /\ url[2] = "//" /\ url[3] \notin SlashLexemes

\* utils.ts getBaseUrl: `${parsed.protocol}//${parsed.host}`
getBaseUrl(url) == <<url[1], "//", url[3]>>

\* the browser loads http and https pages only
Loadable(url) == UrlParses(url) /\ url[1] \in {"http:", "https:"}

(***************************************************************************)
(* utils.ts: globToRegex(pattern).test(s)                                  *)
(***************************************************************************)
SingleCharLexemes == {"0", "1", "2", "3", "4", "5", "6", "7", "8", "9", "-", ":", "!"}

RECURSIVE GlobMatch(_, _)
GlobMatch(p, s) ==
  IF p = <<>> THEN s = <<>>
  ELSE LET rest(k) == SubSeq(s, k + 1, Len(s))
       IN CASE Head(p) = "**" ->
                 \E k \in 0..Len(s) : GlobMatch(Tail(p), rest(k))
            [] Head(p) = "*" ->
                 \E k \in 0..Len(s) :
                   /\ \A j \in 1..k : s[j] \notin SlashLexemes
                   /\ GlobMatch(Tail(p), rest(k))
            [] Head(p) = "?" ->
                 /\ s # <<>>
                 /\ Head(s) \in SingleCharLexemes
                 /\ GlobMatch(Tail(p), Tail(s))
            [] OTHER ->
                 /\ s # <<>>
                 /\ Head(s) = Head(p)
                 /\ GlobMatch(Tail(p), Tail(s))

(***************************************************************************)
(* utils.ts: sanitizeFilename                                              *)
(***************************************************************************)
\* toLowerCase of the word lexemes of the titles
LowerCase(w) ==
  CASE w = "Untitled" -> "untitled"
    [] w = "Empty" -> "empty"
    [] w = "Chapter" -> "chapter"
    [] w = "Intro" -> "intro"
    [] OTHER -> w

\* lexemes made of characters in [a-z0-9] or Cyrillic
WordLexemes == {"untitled", "empty", "chapter", "intro", "1", "2", "3", "w25", "w24"}

\* number of characters of a lower-case lexeme
CharLen(w) == CASE w = "w25" -> 25 [] w = "w24" -> 24 [] w = "untitled" -> 8
                [] w = "chapter" -> 7 [] w \in {"empty", "intro"} -> 5 [] OTHER -> 1

RECURSIVE DashRuns(_)
\* .toLowerCase().replace(/[^a-z0-9 and Cyrillic]+/gi, '-')
DashRuns(t) ==
  IF t = <<>> THEN <<>>
  ELSE LET w == LowerCase(Head(t))
           r == DashRuns(Tail(t))
       IN IF w \in WordLexemes THEN <<w>> \o r
          ELSE IF r # <<>> /\ Head(r) = "-" THEN r ELSE <<"-">> \o r

\* .replace(/^-|-$/g, '')
StripDashes(t) ==
  LET a == IF t # <<>> /\ Head(t) = "-" THEN Tail(t) ELSE t
  IN IF a # <<>> /\ Last(a) = "-" THEN SubSeq(a, 1, Len(a) - 1) ELSE a

RECURSIVE TotalLen(_)
TotalLen(t) == IF t = <<>> THEN 0 ELSE CharLen(Head(t)) + TotalLen(Tail(t))

\* .slice(0, n), for strings whose n-th character ends a lexeme
Slice(t, n) ==
  LET fits == { k \in 0..Len(t) : TotalLen(SubSeq(t, 1, k)) <= n }
  IN SubSeq(t, 1, CHOOSE k \in fits : \A j \in fits : j <= k)

sanitizeFilename(title) == Slice(StripDashes(DashRuns(title)), 50)

\* ChapterFileName without the chapter number
ChapterFileName_NoNumber(idx, title) ==
  [num |-> <<>>, slug |-> sanitizeFilename(title), ext |-> ".md"]

\* `${String(index + 1).padStart(3, '0')}-${sanitizeFilename(title)}.md`
ChapterFileName(idx, title) ==
  [num |-> PadStart(Digits(idx + 1), 3), slug |-> sanitizeFilename(title), ext |-> ".md"]

(***************************************************************************)
(* Inputs: the site                                                        *)
(***************************************************************************)
RECURSIVE DigitLexemes(_)
\* String(n), one lexeme per character
DigitLexemes(n) ==
  IF n < 10 THEN <<ToString(n)>> ELSE DigitLexemes(n \div 10) \o <<ToString(n % 10)>>

\* the k-th chapter link of a table-of-contents page
TocLink(base, k) == base \o <<"/", "ch">> \o DigitLexemes(k)

\* what extractTocLinks returns for a start page with n chapter links
Harvest(base, n) == [k \in 1..n |-> TocLink(base, k)]

UrlPath(url) == SubSeq(url, 4, Len(url))

\* Title with no placeholder for a page without a title
Title_NoPlaceholder(h1, ogTitle) ==
  IF Truthy(h1) THEN h1 ELSE IF Truthy(ogTitle) THEN ogTitle ELSE EmptyStr

\* extractChapterContent: h1?.textContent?.trim() || og:title content || 'Untitled';
\* an absent element is Null
Title(h1, ogTitle) ==
  IF Truthy(h1) THEN h1 ELSE IF Truthy(ogTitle) THEN ogTitle ELSE <<"Untitled">>

\* the page without a heading, a social-metadata title or content blocks
BlankPagePaths == {<<"/", "ch", "5">>}

\* what extractChapterContent returns for the page at url
PageContent(url) ==
  CASE UrlPath(url) \in {<<"/", "ch", "1">>, <<"/", "a">>} ->
         [title |-> Title(<<"Empty", " ", "Chapter">>, Null), html |-> "empty",
          imageUrls |-> <<ThbUrl, PlainUrl>>]
    [] UrlPath(url) \in {<<"/", "ch", "2">>, <<"/", "b">>} ->
         [title |-> Title(Null, <<"Intro", ":", " ", "1">>), html |-> "heading",
          imageUrls |-> <<ThbUrl, StaticUrl, ThbUrl>>]
    [] UrlPath(url) \in {<<"/", "ch", "3">>, <<"/", "book">>} ->
         [title |-> Title(EmptyStr, Null), html |-> "text", imageUrls |-> <<OddUrl>>]
    [] UrlPath(url) \in {<<"/", "ch", "4">>, <<"/", "c">>} ->
         [title |-> Title(<<"w25", " ", "w24", "!", "Intro">>, <<"Intro">>), html |-> "text",
          imageUrls |-> <<>>]
    [] UrlPath(url) \in BlankPagePaths ->
         [title |-> Title(Null, EmptyStr), html |-> "empty", imageUrls |-> <<>>]
    [] OTHER ->
         [title |-> Title(<<"Intro", ":", " ", "1">>, Null), html |-> "text", imageUrls |-> <<>>]

\* anchors a[href] of a chapter page: text and href
AnchorLists ==
  { <<>>,
    << [text |-> <<"Home">>, href |-> <<"/">>],
       [text |-> <<"Next", " ", "chapter">>, href |-> <<"#", "top">>],
       [text |-> <<"NEXT">>, href |-> <<"/", "a">>] >>,
    << [text |-> <<"Dalee">>, href |-> <<"b">>] >>,
    << [text |-> <<"=>">>, href |-> <<"https:", "//", "example.com", "/", "c">>] >>,
    << [text |-> <<"next">>, href |-> SeedUrl] >>,
    << [text |-> <<"Previous">>, href |-> <<"/", "a">>] >> }

\* text.toLowerCase().includes(...) for one of the next-chapter words; "sleduyushch"
\* and "dalee" stand for the two Russian words, "=>" for the arrow glyph
NextWords == {"next", "sleduyushch", "dalee", "=>"}
LowerWord(w) ==
  CASE w \in {"Next", "NEXT"} -> "next" [] w = "Dalee" -> "dalee" [] w = "Home" -> "home"
    [] w = "Previous" -> "previous" [] OTHER -> w
IsNextText(text) == \E k \in 1..Len(text) : LowerWord(text[k]) \in NextWords

(***************************************************************************)
(* scrape.ts: findNextChapterLink                                          *)
(***************************************************************************)
ResolveNext(base, href) ==
  IF Head(href) \in {"http:", "https:"} THEN href
  ELSE IF Head(href) \in SlashLexemes THEN base \o href
  ELSE base \o <<"/">> \o href

RECURSIVE findNextChapterLink(_, _)
findNextChapterLink(anchors, base) ==
  IF anchors = <<>> THEN Null
  ELSE LET btn == Head(anchors)
       IN IF IsNextText(btn.text) /\ btn.href # <<>> /\ Head(btn.href) # "#"
          THEN ResolveNext(base, btn.href)
          ELSE findNextChapterLink(Tail(anchors), base)

(***************************************************************************)
(* scrape.ts: main, link filtering                                         *)
(***************************************************************************)
\* FilterLinks with the pattern looked at only when no --skip is given
FilterLinks_SkipOnly(ls, skip, pattern) ==
  IF Len(skip) > 0
  THEN SelectSeq(ls, LAMBDA link : ~(\E k \in 1..Len(skip) : Includes(link, skip[k])))
  ELSE IF Truthy(pattern)
  THEN SelectSeq(ls, LAMBDA link : GlobMatch(pattern, link))
  ELSE ls

\* main: links after the --skip and --url-pattern filters
FilterLinks(ls, skip, pattern) ==
  LET kept == IF Len(skip) > 0
              THEN SelectSeq(ls, LAMBDA link : ~(\E k \in 1..Len(skip) : Includes(link, skip[k])))
              ELSE ls
  IN IF Truthy(pattern)
     THEN SelectSeq(kept, LAMBDA link : GlobMatch(pattern, link))
     ELSE kept

(***************************************************************************)
(* scrape.ts: scrapeChapter and main                                       *)
(***************************************************************************)
NoExtract == [title |-> Null, html |-> "", imageUrls |-> <<>>]

\* numbers of links the start page may yield
HarvestCounts == {0, 2} \cup ((TOC_LINK_THRESHOLD - 1)..MaxLinks)

\* the state of the module and of main() at its call
InitScrape ==
  /\ pc = "main"
  /\ exitCode = NoExit
  /\ startUrl \in StartUrls
  /\ \E o \in OptionSets : skipUrls = o.skip /\ urlPattern = o.pattern
  /\ baseUrl = Null
  /\ browserOpen = FALSE
  /\ links = <<>>
  /\ mode = "none"
  /\ i = 0
  /\ currentUrl = Null
  /\ index = 0
  /\ nextUrl = Null
  /\ delays = 0
  /\ extracted = NoExtract
  /\ downloads = <<>>
  /\ imageCounter = 0
  /\ failedCount = 0
  /\ imageFiles = <<>>
  /\ chapters = <<>>
  /\ chapterFiles = <<>>
  /\ metaFile = NoMeta
  /\ error = "none"
  /\ gotoLog = <<>>
  /\ threw = {}
  /\ lastDelay = 0

Init ==
  /\ InitScrape /\ InitSignals /\ NoPipeline
  /\ call = "none"
  /\ args = <<>>
  /\ result = <<>>

\* the url argument of the running scrapeChapter call
CurUrl == IF mode = "toc" THEN links[i + 1] ELSE currentUrl
\* CurIndex with the table-of-contents chapters numbered from 1
CurIndex_OneBased == IF mode = "toc" THEN i + 1 ELSE index

\* the index argument of the running scrapeChapter call
CurIndex == IF mode = "toc" THEN i ELSE index

\* catch (error) { console.error(...); process.exit(1); }
CatchExit(e) ==
  /\ error' = e
  /\ pc' = "exited"
  /\ exitCode' = 1

\* an await outside the try block rejects: main() rejects, nothing handles the
\* rejection (line 542) and Node ends the process with status 1
Rejected ==
  /\ pc' = "rejected"
  /\ exitCode' = 1

\* main, up to getBaseUrl
CheckArgs ==
  /\ pc = "main"
  /\ IF ~Truthy(startUrl)
     THEN /\ pc' = "exited"
          /\ exitCode' = 1
          /\ UNCHANGED baseUrl
     ELSE IF ~UrlParses(startUrl)
     THEN /\ Rejected
          /\ UNCHANGED baseUrl
     ELSE /\ baseUrl' = getBaseUrl(startUrl)
          /\ pc' = "setup"
          /\ UNCHANGED exitCode
  /\ UNCHANGED <<lastDelay, fnVars, sigVars, pipeVars>>
  /\ UNCHANGED <<startUrl, skipUrls, urlPattern, browserOpen, links, mode, i, currentUrl, index,
                 nextUrl, delays, extracted, downloads, imageCounter, failedCount, imageFiles,
                 chapters, chapterFiles, metaFile, error, gotoLog, threw>>

\* main: mkdir, puppeteer.launch, browser.newPage, setUserAgent, setViewport
Setup(outcome) ==
  /\ pc = "setup"
  /\ CASE outcome = "ok" -> pc' = "gotoStart" /\ browserOpen' = TRUE /\ UNCHANGED exitCode
       [] outcome = "noBrowser" -> Rejected /\ UNCHANGED browserOpen
       [] OTHER -> Rejected /\ browserOpen' = TRUE
  /\ UNCHANGED <<lastDelay, fnVars, sigVars, pipeVars>>
  /\ UNCHANGED <<startUrl, skipUrls, urlPattern, baseUrl, links, mode, i, currentUrl, index,
                 nextUrl, delays, extracted, downloads, imageCounter, failedCount, imageFiles,
                 chapters, chapterFiles, metaFile, error, gotoLog, threw>>

\* GotoStart with the rejection of page.goto swallowed
GotoStart_Swallow(ok) ==
  /\ pc = "gotoStart"
  /\ ok => Loadable(startUrl)
  /\ pc' = "classify"
  /\ error' = IF ok THEN error ELSE "gotoStart"
  /\ UNCHANGED <<lastDelay, fnVars, sigVars, pipeVars>>
  /\ UNCHANGED <<exitCode, startUrl, skipUrls, urlPattern, baseUrl, browserOpen, links, mode, i,
                 currentUrl, index, nextUrl, delays, extracted, downloads, imageCounter,
                 failedCount, imageFiles, chapters, chapterFiles, metaFile, gotoLog, threw>>

\* main: page.goto(startUrl)
GotoStart(ok) ==
  /\ pc = "gotoStart"
  /\ ok => Loadable(startUrl)
  /\ IF ok THEN pc' = "classify" /\ UNCHANGED <<exitCode, error>> ELSE CatchExit("gotoStart")
  /\ UNCHANGED <<lastDelay, fnVars, sigVars, pipeVars>>
  /\ UNCHANGED <<startUrl, skipUrls, urlPattern, baseUrl, browserOpen, links, mode, i, currentUrl,
                 index, nextUrl, delays, extracted, downloads, imageCounter, failedCount,
                 imageFiles, chapters, chapterFiles, metaFile, gotoLog, threw>>

\* IsToc with >= in place of >
IsToc_Inclusive(ls) == Len(ls) >= TOC_LINK_THRESHOLD

\* if (links.length > TOC_LINK_THRESHOLD)
IsToc(ls) == Len(ls) > TOC_LINK_THRESHOLD

\* main: extractTocLinks, the filters and the choice of the traversal
Classify(n, ok) ==
  /\ pc = "classify"
  /\ IF ok
     THEN LET filtered == FilterLinks(Harvest(baseUrl, n), skipUrls, urlPattern)
          IN /\ links' = filtered
             /\ mode' = IF IsToc(filtered) THEN "toc" ELSE "nav"
             /\ currentUrl' = IF IsToc(filtered) THEN currentUrl ELSE startUrl
             /\ pc' = "chapterGoto"
             /\ UNCHANGED <<exitCode, error>>
     ELSE /\ CatchExit("extractTocLinks")
          /\ UNCHANGED <<links, mode, currentUrl>>
  /\ UNCHANGED <<lastDelay, fnVars, sigVars, pipeVars>>
  /\ UNCHANGED <<startUrl, skipUrls, urlPattern, baseUrl, browserOpen, i, index, nextUrl, delays,
                 extracted, downloads, imageCounter, failedCount, imageFiles, chapters,
                 chapterFiles, metaFile, gotoLog, threw>>

\* scrapeChapter: page.goto(url) and the render wait
ChapterGoto(ok) ==
  /\ pc = "chapterGoto"
  /\ gotoLog' = Append(gotoLog, CurUrl)
  /\ IF ok
     THEN pc' = "chapterExtract" /\ UNCHANGED <<exitCode, error, threw>>
     ELSE CatchExit("scrapeChapter") /\ threw' = threw \cup {CurUrl}
  /\ UNCHANGED <<lastDelay, fnVars, sigVars, pipeVars>>
  /\ UNCHANGED <<startUrl, skipUrls, urlPattern, baseUrl, browserOpen, links, mode, i, currentUrl,
                 index, nextUrl, delays, extracted, downloads, imageCounter, failedCount,
                 imageFiles, chapters, chapterFiles, metaFile>>

RECURSIVE Unique(_)
\* [...new Set(imageUrls)]
Unique(urls) ==
  IF urls = <<>> THEN <<>>
  ELSE LET front == Unique(SubSeq(urls, 1, Len(urls) - 1))
       IN IF \E k \in 1..Len(front) : front[k] = Last(urls) THEN front ELSE Append(front, Last(urls))

\* PostIncrement that reads the counter without advancing it
PostIncrement_Stuck(counter) == [used |-> counter, left |-> counter]

\* imageCounter++ : the value used and the value left behind
PostIncrement(counter) == [used |-> counter, left |-> counter + 1]

\* MapDownloads with the images numbered from 0 in every chapter
MapDownloads_PerChapter(urls, counter, failedNow) ==
  [tasks |-> [k \in 1..Len(urls) |-> NewDownload(urls[k], k - 1, failedNow)],
   counter |-> Len(urls)]

RECURSIVE MapDownloads(_, _, _)
\* uniqueUrls.map(async (imgUrl) => { const imgIndex = imageCounter++; downloadImage(...) }):
\* every callback runs synchronously up to the first await inside downloadImage
MapDownloads(urls, counter, failedNow) ==
  IF urls = <<>> THEN [tasks |-> <<>>, counter |-> counter]
  ELSE LET inc == PostIncrement(counter)
           rest == MapDownloads(Tail(urls), inc.left, failedNow)
       IN [tasks |-> <<NewDownload(Head(urls), inc.used, failedNow)>> \o rest.tasks,
           counter |-> rest.counter]

\* scrapeChapter: extractChapterContent and the start of the image downloads
ChapterExtract(ok) ==
  /\ pc = "chapterExtract"
  /\ IF ok
     THEN LET content == PageContent(CurUrl)
              started == MapDownloads(Unique(content.imageUrls), imageCounter, failedCount)
          IN /\ extracted' = content
             /\ downloads' = started.tasks
             /\ imageCounter' = started.counter
             /\ pc' = "chapterAwait"
             /\ UNCHANGED <<exitCode, error, threw>>
     ELSE /\ CatchExit("scrapeChapter")
          /\ threw' = threw \cup {CurUrl}
          /\ UNCHANGED <<extracted, downloads, imageCounter>>
  /\ UNCHANGED <<lastDelay, fnVars, sigVars, pipeVars>>
  /\ UNCHANGED <<startUrl, skipUrls, urlPattern, baseUrl, browserOpen, links, mode, i, currentUrl,
                 index, nextUrl, delays, failedCount, imageFiles, chapters, chapterFiles,
                 metaFile, gotoLog>>

\* AllSettled as Promise.race would have it: one resolution has ended
AllSettled_Any == downloads = <<>> \/ \E t \in 1..Len(downloads) : downloads[t].pc = "done"

\* Promise.all(downloadPromises) has resolved
AllSettled == \A t \in 1..Len(downloads) : downloads[t].pc = "done"

\* urlMap: the images whose localFile is not null
UrlMap == { [remote |-> downloads[t].imgUrl, localFile |-> downloads[t].localFile] :
              t \in { u \in 1..Len(downloads) : downloads[u].localFile # NoFile } }

\* scrapeChapter from Promise.all to return, and the loop step of main that follows it
ChapterWrite(ok) ==
  /\ pc = "chapterAwait"
  /\ AllSettled
  /\ IF ok
     THEN LET filename == ChapterFileName(CurIndex, extracted.title)
          IN /\ chapterFiles' = Append(chapterFiles,
                   [filename |-> filename, titleAdded |-> extracted.html # "heading",
                    title |-> extracted.title, images |-> UrlMap])
             /\ chapters' = Append(chapters,
                   [index |-> CurIndex, title |-> extracted.title, url |-> CurUrl,
                    filename |-> filename])
             /\ IF mode = "toc"
                THEN /\ i' = i + 1
                     /\ pc' = IF i < Len(links) - 1 THEN "delay" ELSE "finalize"
                ELSE /\ pc' = "findNext"
                     /\ UNCHANGED i
             /\ UNCHANGED <<exitCode, error, threw>>
     ELSE /\ CatchExit("scrapeChapter")
          /\ threw' = threw \cup {CurUrl}
          /\ UNCHANGED <<chapterFiles, chapters, i>>
  /\ extracted' = NoExtract
  /\ downloads' = <<>>
  /\ UNCHANGED <<lastDelay, fnVars, sigVars, pipeVars>>
  /\ UNCHANGED <<startUrl, skipUrls, urlPattern, baseUrl, browserOpen, links, mode, currentUrl,
                 index, nextUrl, delays, imageCounter, failedCount, imageFiles, metaFile, gotoLog>>

\* Follow without the test of the chapters already scraped
Follow_NoGuard(next) == Truthy(next)

\* nextUrl && !meta.chapters.some(c => c.url === nextUrl)
Follow(next) == Truthy(next) /\ ~(\E k \in 1..Len(chapters) : chapters[k].url = next)

\* FindNext without `index++`
FindNext_NoIncrement(anchors, ok) ==
  /\ pc = "findNext"
  /\ IF ok
     THEN LET next == findNextChapterLink(anchors, baseUrl)
          IN /\ nextUrl' = next
             /\ IF Truthy(next) /\ ~(\E k \in 1..Len(chapters) : chapters[k].url = next)
                THEN /\ currentUrl' = next
                     /\ pc' = "delay"
                ELSE /\ currentUrl' = Null
                     /\ pc' = "finalize"
             /\ UNCHANGED <<exitCode, error>>
     ELSE /\ error' = "findNextChapterLink"
          /\ pc' = "exited"
          /\ exitCode' = 1
          /\ UNCHANGED <<nextUrl, currentUrl>>
  /\ UNCHANGED <<lastDelay, fnVars, sigVars, pipeVars>>
  /\ UNCHANGED <<startUrl, skipUrls, urlPattern, baseUrl, browserOpen, links, mode, i, index, delays, extracted,
                 downloads, imageCounter, failedCount, imageFiles, chapters, chapterFiles,
                 metaFile, gotoLog, threw>>

\* main, navigation loop: findNextChapterLink and the choice to go on
FindNext(anchors, ok) ==
  /\ pc = "findNext"
  /\ IF ok
     THEN LET next == findNextChapterLink(anchors, baseUrl)
          IN /\ nextUrl' = next
             /\ IF Follow(next)
                THEN /\ currentUrl' = next
                     /\ index' = index + 1
                     /\ pc' = "delay"
                ELSE /\ currentUrl' = Null
                     /\ pc' = "finalize"
                     /\ UNCHANGED index
             /\ UNCHANGED <<exitCode, error>>
     ELSE /\ CatchExit("findNextChapterLink")
          /\ UNCHANGED <<nextUrl, currentUrl, index>>
  /\ UNCHANGED <<lastDelay, fnVars, sigVars, pipeVars>>
  /\ UNCHANGED <<startUrl, skipUrls, urlPattern, baseUrl, browserOpen, links, mode, i, delays, extracted,
                 downloads, imageCounter, failedCount, imageFiles, chapters, chapterFiles,
                 metaFile, gotoLog, threw>>

\* parseArgs: chapterDelay when --delay is not given
DEFAULT_CHAPTER_DELAY == 1000

\* Math.random() * 500, rounded down: the ends of its range
Jitters == {0, 499}

\* Delay with the loop going on at once
Delay_Skip(jitter) ==
  /\ pc = "delay"
  /\ pc' = "chapterGoto"
  /\ UNCHANGED <<delays, lastDelay, fnVars, sigVars, pipeVars>>
  /\ UNCHANGED <<exitCode, startUrl, skipUrls, urlPattern, baseUrl, browserOpen, links, mode, i,
                 currentUrl, index, nextUrl, extracted, downloads, imageCounter, failedCount,
                 imageFiles, chapters, chapterFiles, metaFile, error, gotoLog, threw>>

\* main, both loops: await delay(chapterDelay + Math.random() * 500)
Delay(jitter) ==
  /\ pc = "delay"
  /\ delays' = delays + 1
  /\ lastDelay' = DEFAULT_CHAPTER_DELAY + jitter
  /\ pc' = "chapterGoto"
  /\ UNCHANGED <<fnVars, sigVars, pipeVars>>
  /\ UNCHANGED <<exitCode, startUrl, skipUrls, urlPattern, baseUrl, browserOpen, links, mode, i,
                 currentUrl, index, nextUrl, extracted, downloads, imageCounter, failedCount,
                 imageFiles, chapters, chapterFiles, metaFile, error, gotoLog, threw>>

\* main: fs.writeFile(metaPath, JSON.stringify(meta))
Finalize(ok) ==
  /\ pc = "finalize"
  /\ IF ok
     THEN metaFile' = chapters /\ pc' = "closing" /\ UNCHANGED <<exitCode, error>>
     ELSE CatchExit("writeMeta") /\ UNCHANGED metaFile
  /\ UNCHANGED <<lastDelay, fnVars, sigVars, pipeVars>>
  /\ UNCHANGED <<startUrl, skipUrls, urlPattern, baseUrl, browserOpen, links, mode, i, currentUrl,
                 index, nextUrl, delays, extracted, downloads, imageCounter, failedCount,
                 imageFiles, chapters, chapterFiles, gotoLog, threw>>

\* main: finally { await browser.close(); } when the try block completed
CloseBrowser(ok) ==
  /\ pc = "closing"
  /\ IF ok
     THEN pc' = "done" /\ exitCode' = 0 /\ browserOpen' = FALSE
     ELSE Rejected /\ UNCHANGED browserOpen
  /\ UNCHANGED <<lastDelay, fnVars, sigVars, pipeVars>>
  /\ UNCHANGED <<startUrl, skipUrls, urlPattern, baseUrl, links, mode, i, currentUrl, index,
                 nextUrl, delays, extracted, downloads, imageCounter, failedCount, imageFiles,
                 chapters, chapterFiles, metaFile, error, gotoLog, threw>>

Next ==
  \/ CheckArgs
  \/ \E o \in {"ok", "noBrowser", "noPage"} : Setup(o)
  \/ \E ok \in BOOLEAN : GotoStart(ok)
  \/ \E n \in HarvestCounts, ok \in BOOLEAN : Classify(n, ok)
  \/ \E ok \in BOOLEAN : ChapterGoto(ok)
  \/ \E ok \in BOOLEAN : ChapterExtract(ok)
  \/ ImageStep
  \/ \E ok \in BOOLEAN : ChapterWrite(ok)
  \/ \E a \in AnchorLists, ok \in BOOLEAN : FindNext(a, ok)
  \/ \E j \in Jitters : Delay(j)
  \/ \E ok \in BOOLEAN : Finalize(ok)
  \/ \E ok \in BOOLEAN : CloseBrowser(ok)

Spec == Init /\ [][Next]_vars

(***************************************************************************)
(* Several invocations of main() in one process (main is exported and the  *)
(* test-suite awaits it repeatedly on one module instance)                 *)
(***************************************************************************)
\* the largest value of imageCounter with which main() is invoked again
MaxCarried == 1

\* `await main()` once more after an invocation that returned: the locals of
\* main start afresh, the module-level imageCounter and the files on disk stay
Reinvoke ==
  /\ pc = "done"
  /\ imageCounter <= MaxCarried
  /\ pc' = "main"
  /\ exitCode' = NoExit
  /\ baseUrl' = Null
  /\ links' = <<>>
  /\ mode' = "none"
  /\ i' = 0
  /\ currentUrl' = Null
  /\ index' = 0
  /\ nextUrl' = Null
  /\ delays' = 0
  /\ chapters' = <<>>
  /\ gotoLog' = <<>>
  /\ UNCHANGED <<lastDelay, fnVars, sigVars, pipeVars>>
  /\ UNCHANGED <<startUrl, skipUrls, urlPattern, browserOpen, extracted, downloads, imageCounter,
                 failedCount, imageFiles, chapterFiles, metaFile, error, threw>>

\* a book of two pages read by its next links
TwoRunAnchors == { <<>>, << [text |-> <<"Dalee">>, href |-> <<"b">>] >> }

InitTwoRuns == Init /\ startUrl = SeedUrl /\ skipUrls = <<>> /\ urlPattern = Null

NextTwoRuns ==
  \/ CheckArgs
  \/ \E o \in {"ok", "noBrowser", "noPage"} : Setup(o)
  \/ \E ok \in BOOLEAN : GotoStart(ok)
  \/ \E ok \in BOOLEAN : Classify(0, ok)
  \/ \E ok \in BOOLEAN : ChapterGoto(ok)
  \/ \E ok \in BOOLEAN : ChapterExtract(ok)
  \/ ImageStep
  \/ \E ok \in BOOLEAN : ChapterWrite(ok)
  \/ \E a \in TwoRunAnchors, ok \in BOOLEAN : FindNext(a, ok)
  \/ \E j \in Jitters : Delay(j)
  \/ \E ok \in BOOLEAN : Finalize(ok)
  \/ \E ok \in BOOLEAN : CloseBrowser(ok)
  \/ Reinvoke

SpecTwoRuns == InitTwoRuns /\ [][NextTwoRuns]_vars

(***************************************************************************)
(* utils.ts: deduplicateContentParts                                       *)
(* An HTML fragment is a sequence of tokens: white space, text, an <img>   *)
(* tag with the value of its src attribute ("" when it has none), any      *)
(* other tag with the value of an attribute written src="..." ("" when it  *)
(* has none).                                                              *)
(***************************************************************************)
\* the longest contentParts array examined
MaxParts == 3

Ws == [k |-> "ws", v |-> " "]
Txt(t) == [k |-> "text", v |-> t]
Tag(src) == [k |-> "tag", v |-> src]
Img(src) == [k |-> "img", v |-> src]

Fragments ==
  { <<>>,
    <<Ws>>,
    <<Txt("A")>>,
    <<Ws, Tag(""), Txt("A"), Tag(""), Ws>>,
    <<Tag(""), Txt("B"), Ws, Txt("A"), Tag("")>>,
    <<Img("u1")>>,
    <<Tag(""), Img("u1"), Txt("B"), Tag("")>>,
    <<Img("u2"), Img("u1")>>,
    <<Img(""), Txt("A")>>,
    <<Tag("u2"), Img("u1")>>,
    <<Tag(""), Tag("")>>,
    <<Txt("u1")>> }

RECURSIVE TrimStart(_)
TrimStart(s) == IF s # <<>> /\ Head(s) = Ws THEN TrimStart(Tail(s)) ELSE s

RECURSIVE TrimEnd(_)
TrimEnd(s) == IF s # <<>> /\ Last(s) = Ws THEN TrimEnd(SubSeq(s, 1, Len(s) - 1)) ELSE s

\* String.prototype.trim
Trim(s) == TrimEnd(TrimStart(s))

IsImg(tok) == tok.k = "img"
IsCharData(tok) == tok.k \in {"ws", "text"}
HasSrc(tok) == tok.k \in {"img", "tag"} /\ tok.v # ""

\* the text of a fragment: its tokens outside tags
TextOf(html) == SelectSeq(html, IsCharData)

\* temp.querySelector('img') and img.getAttribute('src') || '' in a document
DomImageKey(html) ==
  LET imgs == SelectSeq(html, IsImg)
  IN [found |-> imgs # <<>>, src |-> IF imgs # <<>> THEN Head(imgs).v ELSE ""]

\* createElementFromHTML: html.includes('<img') and the first src="..." of the
\* fragment whatever tag carries it; no element when there is no such attribute
FallbackImageKey(html) ==
  LET srcs == SelectSeq(html, HasSrc)
  IN [found |-> SelectSeq(html, IsImg) # <<>> /\ srcs # <<>>,
      src |-> IF srcs # <<>> THEN Head(srcs).v ELSE ""]

\* textKey of the trimmed fragment, a string: "" is <<>>
TextKey(trimmed, document) ==
  LET img == IF document THEN DomImageKey(trimmed) ELSE FallbackImageKey(trimmed)
  IN IF img.found
     THEN (IF img.src = "" THEN <<>> ELSE <<Txt(img.src)>>)
     ELSE Trim(TextOf(trimmed))

\* the filter callback returns true
Keeps(part, document, seen) ==
  /\ Trim(part) # <<>>
  /\ TextKey(Trim(part), document) # <<>>
  /\ TextKey(Trim(part), document) \notin seen

RECURSIVE FilterParts(_, _, _)
\* contentParts.filter(...) with the set `seen` growing along the array
FilterParts(parts, document, seen) ==
  IF parts = <<>> THEN <<>>
  ELSE IF Keeps(Head(parts), document, seen)
       THEN <<Head(parts)>> \o FilterParts(Tail(parts), document,
                                           seen \cup {TextKey(Trim(Head(parts)), document)})
       ELSE FilterParts(Tail(parts), document, seen)

\* deduplicateContentParts starting at the second fragment
deduplicateContentParts_DropFirst(contentParts, document) ==
  FilterParts(IF contentParts = <<>> THEN <<>> ELSE Tail(contentParts), document, {})

\* `document` is whether the global document exists (browser, jsdom) or not (Node)
deduplicateContentParts(contentParts, document) == FilterParts(contentParts, document, {})

RECURSIVE SeqsUpTo(_, _)
\* the sequences over S of length at most n
SeqsUpTo(S, n) ==
  IF n = 0 THEN {<<>>}
  ELSE LET shorter == SeqsUpTo(S, n - 1)
       IN shorter \cup { Append(q, x) : q \in shorter, x \in S }

InitDedup ==
  /\ InitScrape /\ InitSignals /\ NoPipeline /\ startUrl = SeedUrl /\ skipUrls = <<>> /\ urlPattern = Null
  /\ call = "none"
  /\ args \in [contentParts : SeqsUpTo(Fragments, MaxParts), document : BOOLEAN]
  /\ result = <<>>

\* deduplicateContentParts(contentParts)
Dedupe ==
  /\ call = "none"
  /\ call' = "deduplicateContentParts"
  /\ result' = deduplicateContentParts(args.contentParts, args.document)
  /\ UNCHANGED <<args, scrapeVars, sigVars, pipeVars>>

\* deduplicateContentParts applied to what it returned
DedupeAgain ==
  /\ call = "deduplicateContentParts"
  /\ call' = "deduplicateContentParts twice"
  /\ result' = deduplicateContentParts(result, args.document)
  /\ UNCHANGED <<args, scrapeVars, sigVars, pipeVars>>

NextDedup == Dedupe \/ DedupeAgain

SpecDedup == InitDedup /\ [][NextDedup]_vars

(***************************************************************************)
(* scrape.ts: the resolution of an href in extractTocLinks and in          *)
(* findNextChapterLink, applied to one anchor of the page at pageUrl       *)
(***************************************************************************)
ResolveHrefs ==
  { <<"/", "a">>,
    <<"/", "dir", "/", "b">>,
    <<"page.html">>,
    <<"sub", "/", "p">>,
    <<"//", "other.com", "/", "p">>,
    <<"//", "example.com", "/", "q">>,
    <<"http:", "//">>,
    <<"https:", "//">>,
    <<"https:", "//", "example.com", "/", "c">>,
    <<"http:", "//", "other.com", "/", "x">> }

ResolvePages ==
  { <<"https:", "//", "example.com">>,
    SeedUrl,
    <<"https:", "//", "example.com", "/", "dir", "/", "index.html">>,
    <<"http:", "//", "example.com", "/", "dir", "/", "sub", "/", "p">> }

\* extractTocLinks: fullUrl, Null where `new URL(fullUrl)` throws and the anchor is skipped
ResolveTocHref(base, href) ==
  LET fullUrl == IF Head(href) \in {"http:", "https:"} THEN href
                 ELSE IF Head(href) \in SlashLexemes THEN base \o href
                 ELSE base \o <<"/">> \o href
  IN IF UrlParses(fullUrl) THEN fullUrl ELSE Null

InitResolve ==
  /\ InitScrape /\ InitSignals /\ NoPipeline /\ startUrl = SeedUrl /\ skipUrls = <<>> /\ urlPattern = Null
  /\ call = "none"
  /\ args \in [href : ResolveHrefs, pageUrl : ResolvePages]
  /\ result = <<>>

\* the anchor is one of the start page: baseUrl is getBaseUrl(startUrl)
ResolveTocLink ==
  /\ call = "none"
  /\ call' = "extractTocLinks"
  /\ result' = ResolveTocHref(getBaseUrl(args.pageUrl), args.href)
  /\ UNCHANGED <<args, scrapeVars, sigVars, pipeVars>>

\* the anchor is the next link of a chapter page
ResolveNextLink ==
  /\ call = "none"
  /\ call' = "findNextChapterLink"
  /\ result' = ResolveNext(getBaseUrl(args.pageUrl), args.href)
  /\ UNCHANGED <<args, scrapeVars, sigVars, pipeVars>>

NextResolve == ResolveTocLink \/ ResolveNextLink

SpecResolve == InitResolve /\ [][NextResolve]_vars

(***************************************************************************)
(* scrape.ts: extractTocLinks over the anchors a[href] of a page; an       *)
(* anchor is its href and whether it lies inside a menu or navigation      *)
(* element                                                                 *)
(***************************************************************************)
\* the longest list of anchors examined
MaxAnchors == 3

TocAnchors ==
  { [href |-> <<>>, menu |-> FALSE],
    [href |-> <<"#", "top">>, menu |-> FALSE],
    [href |-> <<"/", "a", "#", "rec1">>, menu |-> FALSE],
    [href |-> <<"mailto:", "x@example.com">>, menu |-> FALSE],
    [href |-> <<"https:", "//", "t.me", "/", "x">>, menu |-> FALSE],
    [href |-> <<"/", "a">>, menu |-> FALSE],
    [href |-> <<"a">>, menu |-> FALSE],
    [href |-> <<"/", "a">>, menu |-> TRUE],
    [href |-> <<"/", "b">>, menu |-> TRUE],
    [href |-> <<"/">>, menu |-> FALSE],
    [href |-> <<"/", "book">>, menu |-> FALSE],
    [href |-> <<"/", "book", "?", "p=2">>, menu |-> FALSE],
    [href |-> <<"https:", "//", "example.com", "/", "c">>, menu |-> FALSE],
    [href |-> <<"https:", "//", "example.com">>, menu |-> FALSE],
    [href |-> <<"https:", "//", "other.com", "/", "x">>, menu |-> FALSE],
    [href |-> <<"//", "other.com", "/", "p">>, menu |-> FALSE],
    [href |-> <<"http:", "//">>, menu |-> FALSE] }

\* the texts whose presence in an href makes extractTocLinks skip the anchor
ExternalMarks ==
  {"#", "mailto:", "tel:", "t.me", "vk.com", "youtube.com", "instagram", "facebook", "twitter"}

\* new URL(url).host
UrlHost(url) == url[3]

\* new URL(url).pathname: the path up to the query, "/" when the URL has none
Pathname(url) ==
  LET path == SubSeq(url, 4, Len(url))
      cut == IF \E p \in 1..Len(path) : path[p] = "?"
             THEN (CHOOSE p \in 1..Len(path) : path[p] = "?" /\ \A q \in 1..(p - 1) : path[q] # "?") - 1
             ELSE Len(path)
  IN IF cut = 0 THEN <<"/">> ELSE SubSeq(path, 1, cut)

\* SeenHas with the set of seen URLs never consulted
SeenHas_Never(seen, fullUrl) == FALSE

\* seen.has(fullUrl)
SeenHas(seen, fullUrl) == fullUrl \in seen

\* the forEach callback reaches `if (!seen.has(fullUrl))` for the anchor
TocCandidate(a, base, currentPath) ==
  /\ a.href # <<>>
  /\ \A k \in 1..Len(a.href) : a.href[k] \notin ExternalMarks
  /\ ResolveTocHref(base, a.href) # Null
  /\ UrlHost(ResolveTocHref(base, a.href)) = UrlHost(base)
  /\ Pathname(ResolveTocHref(base, a.href)) # <<"/">>
  /\ ~a.menu
  /\ Pathname(ResolveTocHref(base, a.href)) # currentPath

RECURSIVE TocWalk(_, _, _, _)
\* document.querySelectorAll('a[href]').forEach(...) with the set `seen`
TocWalk(anchors, base, currentPath, seen) ==
  IF anchors = <<>> THEN <<>>
  ELSE LET a == Head(anchors)
           fullUrl == ResolveTocHref(base, a.href)
       IN IF TocCandidate(a, base, currentPath) /\ ~SeenHas(seen, fullUrl)
          THEN <<fullUrl>> \o TocWalk(Tail(anchors), base, currentPath, seen \cup {fullUrl})
          ELSE TocWalk(Tail(anchors), base, currentPath, seen)

\* extractTocLinks(page, baseUrl) for the page at pageUrl with these anchors
extractTocLinks(anchors, pageUrl, base) == TocWalk(anchors, base, Pathname(pageUrl), {})

InitToc ==
  /\ InitScrape /\ InitSignals /\ NoPipeline /\ startUrl = SeedUrl /\ skipUrls = <<>> /\ urlPattern = Null
  /\ call = "none"
  /\ args \in [anchors : SeqsUpTo(TocAnchors, MaxAnchors), pageUrl : {SeedUrl}]
  /\ result = <<>>

\* main: links = await extractTocLinks(page, baseUrl), baseUrl the origin of the start URL
HarvestToc ==
  /\ call = "none"
  /\ call' = "extractTocLinks(page)"
  /\ result' = extractTocLinks(args.anchors, args.pageUrl, getBaseUrl(args.pageUrl))
  /\ UNCHANGED <<args, scrapeVars, sigVars, pipeVars>>

NextToc == HarvestToc

SpecToc == InitToc /\ [][NextToc]_vars

(***************************************************************************)
(* utils: onInterrupt and setupSignalHandlers; a cleanup callback is       *)
(* what its call does: it returns a promise that resolves or rejects, or   *)
(* it throws before returning                                              *)
(***************************************************************************)
\* the most callbacks registered
MaxCallbacks == 2
\* the most signals delivered to one process
MaxSignals == 3

ShutdownSignals == {"SIGINT", "SIGTERM"}
CallbackEnds == {"resolves", "rejects", "throws"}

\* the process has neither exited nor been ended by a signal
Alive == exitCode = NoExit /\ killedBy = "none" /\ pc \notin {"exited", "rejected", "done"}

\* const exitCode = signal === 'SIGINT' ? 130 : 143
ShutdownExitCode(signal) == IF signal = "SIGINT" THEN 130 ELSE 143

RECURSIVE RunCallbacks(_, _)
\* the loop `for (const callback of cleanupCallbacks)` from its k-th callback up
\* to the next await: a callback that throws is caught and the loop goes on at
\* once; awaiting = 0 when the loop has ended
RunCallbacks(callbacks, k) ==
  IF k > Len(callbacks) THEN [events |-> <<>>, awaiting |-> 0]
  ELSE IF callbacks[k] = "throws"
       THEN LET rest == RunCallbacks(callbacks, k + 1)
            IN [events |-> <<[ev |-> "call", cb |-> k], [ev |-> "threw", cb |-> k]>> \o rest.events,
                awaiting |-> rest.awaiting]
       ELSE [events |-> <<[ev |-> "call", cb |-> k]>>, awaiting |-> k]

\* AlreadyExiting with the flag never consulted
AlreadyExiting_Never == FALSE

\* handler: if (isExiting) return
AlreadyExiting == isExiting

\* the handler goes on from callback k: either it awaits a callback, or the loop
\* is over and it calls process.exit
HandlerStep(h, signal, k) ==
  LET r == RunCallbacks(cleanupCallbacks, k)
  IN /\ cbLog' = cbLog \o (IF k > 1 THEN <<[ev |-> "settled", cb |-> k - 1]>> ELSE <<>>) \o r.events
     /\ handlerCalls' = [handlerCalls EXCEPT ![h] = [signal |-> signal, awaiting |-> r.awaiting]]
     /\ IF r.awaiting = 0
        THEN exitCode' = ShutdownExitCode(signal) /\ pc' = "exited"
        ELSE UNCHANGED <<exitCode, pc>>

\* setupSignalHandlers(commandName): process.on('SIGINT', ...), process.on('SIGTERM', ...)
SetupSignalHandlers ==
  /\ Alive
  /\ ~installed
  /\ installed' = TRUE
  /\ UNCHANGED <<isExiting, cleanupCallbacks, handlerCalls, cbLog, signalLog, killedBy>>
  /\ UNCHANGED <<scrapeVars, fnVars, pipeVars>>

\* onInterrupt(callback)
OnInterrupt(callback) ==
  /\ Alive
  /\ Len(cleanupCallbacks) < MaxCallbacks
  /\ cleanupCallbacks' = Append(cleanupCallbacks, callback)
  /\ UNCHANGED <<installed, isExiting, handlerCalls, cbLog, signalLog, killedBy>>
  /\ UNCHANGED <<scrapeVars, fnVars, pipeVars>>

\* a signal is delivered: without a listener the process ends at once, whatever
\* main() was doing; with the listeners of setupSignalHandlers the handler runs
\* up to its first await
Signal(signal) ==
  /\ Alive
  /\ Len(signalLog) < MaxSignals
  /\ signalLog' = Append(signalLog, signal)
  /\ IF ~installed
     THEN /\ killedBy' = signal
          /\ pc' = "killed"
          /\ UNCHANGED <<exitCode, isExiting, handlerCalls, cbLog>>
     ELSE IF AlreadyExiting
     THEN UNCHANGED <<killedBy, pc, exitCode, isExiting, handlerCalls, cbLog>>
     ELSE LET r == RunCallbacks(cleanupCallbacks, 1)
          IN /\ isExiting' = TRUE
             /\ cbLog' = cbLog \o r.events
             /\ handlerCalls' = Append(handlerCalls, [signal |-> signal, awaiting |-> r.awaiting])
             /\ IF r.awaiting = 0
                THEN exitCode' = ShutdownExitCode(signal) /\ pc' = "exited"
                ELSE UNCHANGED <<exitCode, pc>>
             /\ UNCHANGED killedBy
  /\ UNCHANGED <<installed, cleanupCallbacks>>
  /\ UNCHANGED <<startUrl, skipUrls, urlPattern, baseUrl, browserOpen, links, mode, i, currentUrl,
                 index, nextUrl, delays, extracted, downloads, imageCounter, failedCount, imageFiles,
                 chapters, chapterFiles, metaFile, error, gotoLog, threw, lastDelay>>
  /\ UNCHANGED <<fnVars, pipeVars>>

\* the promise awaited by the h-th handler call settles, fulfilled or rejected
\* alike, and the handler goes on with the next callback
CallbackSettles(h) ==
  /\ Alive
  /\ h \in 1..Len(handlerCalls)
  /\ handlerCalls[h].awaiting > 0
  /\ HandlerStep(h, handlerCalls[h].signal, handlerCalls[h].awaiting + 1)
  /\ UNCHANGED <<installed, isExiting, cleanupCallbacks, signalLog, killedBy>>
  /\ UNCHANGED <<startUrl, skipUrls, urlPattern, baseUrl, browserOpen, links, mode, i, currentUrl,
                 index, nextUrl, delays, extracted, downloads, imageCounter, failedCount, imageFiles,
                 chapters, chapterFiles, metaFile, error, gotoLog, threw, lastDelay>>
  /\ UNCHANGED <<fnVars, pipeVars>>

\* a process that calls setupSignalHandlers at its start, as merge.ts and pdf.ts do
InitShutdown == Init /\ startUrl = SeedUrl /\ skipUrls = <<>> /\ urlPattern = Null

NextShutdown ==
  \/ SetupSignalHandlers
  \/ \E callback \in CallbackEnds : OnInterrupt(callback)
  \/ \E signal \in ShutdownSignals : Signal(signal)
  \/ \E h \in 1..MaxSignals : CallbackSettles(h)

SpecShutdown == InitShutdown /\ [][NextShutdown]_vars

\* scrape.ts run as a program: main() with signals delivered to its process
InitInterrupt == Init /\ startUrl = SeedUrl /\ skipUrls = <<>> /\ urlPattern = Null

NextInterrupt ==
  \/ CheckArgs
  \/ \E o \in {"ok", "noBrowser", "noPage"} : Setup(o)
  \/ \E ok \in BOOLEAN : GotoStart(ok)
  \/ \E ok \in BOOLEAN : Classify(0, ok)
  \/ \E ok \in BOOLEAN : ChapterGoto(ok)
  \/ \E ok \in BOOLEAN : ChapterExtract(ok)
  \/ ImageStep
  \/ \E ok \in BOOLEAN : ChapterWrite(ok)
  \/ \E a \in TwoRunAnchors, ok \in BOOLEAN : FindNext(a, ok)
  \/ \E j \in Jitters : Delay(j)
  \/ \E ok \in BOOLEAN : Finalize(ok)
  \/ \E ok \in BOOLEAN : CloseBrowser(ok)
  \/ \E signal \in ShutdownSignals : Signal(signal)

SpecInterrupt == InitInterrupt /\ [][NextInterrupt]_vars

(***************************************************************************)
(* index.ts: the pipeline scrape -> merge -> pdf; an argument is one       *)
(* string, a command is the script with the options put into it            *)
(***************************************************************************)
\* the most command-line arguments given to the pipeline
MaxArgs == 3

PipelineTokens == {"--name", "--wait", "My Book", "500", "https://example.com/book"}

\* exit statuses of a child process
ChildStatuses == {0, 1, 130}

\* what parseInt gives for a string that is no number
NaN == -1

\* parseInt(s, 10)
ParseInt(s) == IF s = "500" THEN 500 ELSE NaN

\* args[i].startsWith('--')
IsFlag(s) == s \in {"--name", "--wait", "--delay"}

RECURSIVE ParseFrom(_, _, _)
\* parseArgs: the loop from index at (counted from 1) with the options found so far
ParseFrom(argv, at, o) ==
  IF at > Len(argv) THEN o
  ELSE IF argv[at] = "--name" /\ at + 1 <= Len(argv)
       THEN ParseFrom(argv, at + 2, [o EXCEPT !.name = argv[at + 1]])
  ELSE IF argv[at] = "--wait" /\ at + 1 <= Len(argv)
       THEN ParseFrom(argv, at + 2, [o EXCEPT !.wait = ParseInt(argv[at + 1])])
  ELSE IF argv[at] = "--delay" /\ at + 1 <= Len(argv)
       THEN ParseFrom(argv, at + 2, [o EXCEPT !.delay = ParseInt(argv[at + 1])])
  ELSE IF ~IsFlag(argv[at])
       THEN ParseFrom(argv, at + 1, [o EXCEPT !.startUrl = argv[at]])
  ELSE ParseFrom(argv, at + 1, o)

\* parseArgs()
PipelineParseArgs(argv) ==
  ParseFrom(argv, 1, [startUrl |-> "", name |-> "Book", wait |-> 1000, delay |-> 1000])

\* Throws with the child's status never looked at
Throws_Never(status) == FALSE

\* execSync(command, ...) throws when the child ends with a status other than 0
Throws(status) == status # 0

\* run(command, description) inside main's try: the step is started; when it
\* returns main goes on to `next`, when it throws the catch block exits with 1
RunStep(command, description, status, next) ==
  /\ ran' = Append(ran, [description |-> description, command |-> command, status |-> status])
  /\ IF Throws(status)
     THEN pipePc' = "exited" /\ pipeExit' = 1
     ELSE pipePc' = next /\ UNCHANGED pipeExit
  /\ UNCHANGED <<pipeArgv, complete>>
  /\ UNCHANGED <<scrapeVars, fnVars, sigVars>>

InitPipeline ==
  /\ InitScrape /\ InitSignals /\ startUrl = SeedUrl /\ skipUrls = <<>> /\ urlPattern = Null
  /\ call = "none" /\ args = <<>> /\ result = <<>>
  /\ pipeArgv \in SeqsUpTo(PipelineTokens, MaxArgs)
  /\ pipePc = "main"
  /\ ran = <<>>
  /\ complete = FALSE
  /\ pipeExit = NoExit

\* main: parseArgs, the usage exit, the three opening messages
PipelineStart ==
  /\ pipePc = "main"
  /\ IF PipelineParseArgs(pipeArgv).startUrl = ""
     THEN pipePc' = "exited" /\ pipeExit' = 1
     ELSE pipePc' = "scrape" /\ UNCHANGED pipeExit
  /\ UNCHANGED <<pipeArgv, ran, complete>>
  /\ UNCHANGED <<scrapeVars, fnVars, sigVars>>

\* Step 1
RunScrape(status) ==
  /\ pipePc = "scrape"
  /\ LET o == PipelineParseArgs(pipeArgv)
     IN RunStep([script |-> "src/scrape.ts", startUrl |-> o.startUrl, wait |-> o.wait,
                 delay |-> o.delay, name |-> ""],
                "Scraping chapters", status, "merge")

\* Step 2
RunMerge(status) ==
  /\ pipePc = "merge"
  /\ RunStep([script |-> "src/merge.ts", startUrl |-> "", wait |-> NaN, delay |-> NaN,
              name |-> PipelineParseArgs(pipeArgv).name],
             "Merging chapters", status, "pdf")

\* Step 3
RunPdf(status) ==
  /\ pipePc = "pdf"
  /\ RunStep([script |-> "src/pdf.ts", startUrl |-> "", wait |-> NaN, delay |-> NaN, name |-> ""],
             "Generating PDF", status, "complete")

\* 'Pipeline complete!' and the list of output files; main returns
PipelineComplete ==
  /\ pipePc = "complete"
  /\ complete' = TRUE
  /\ pipePc' = "done"
  /\ UNCHANGED <<pipeArgv, ran, pipeExit>>
  /\ UNCHANGED <<scrapeVars, fnVars, sigVars>>

NextPipeline ==
  \/ PipelineStart
  \/ \E status \in ChildStatuses : RunScrape(status)
  \/ \E status \in ChildStatuses : RunMerge(status)
  \/ \E status \in ChildStatuses : RunPdf(status)
  \/ PipelineComplete

SpecPipeline == InitPipeline /\ [][NextPipeline]_vars

(***************************************************************************)
(* Properties                                                              *)
(***************************************************************************)
Terminated == pc \in {"exited", "rejected", "done"}

Range(f) == { f[k] : k \in DOMAIN f }

ChapterUrls == [k \in 1..Len(chapters) |-> chapters[k].url]

\* C1: when a chapter's load or extraction throws, the controller does not abort:
\* every remaining chapter of the traversal is attempted and meta.json is written.
C1_ChapterFailureDoesNotAbort ==
  (threw # {} /\ Terminated) =>
     /\ error # "scrapeChapter"
     /\ metaFile # NoMeta
     /\ mode = "toc" => \A k \in 1..Len(links) : links[k] \in Range(gotoLog)

\* C2: a chapter that throws produces no record and leaves the other records alone:
\* at the end of a TOC traversal `chapters` holds exactly the links that did not throw,
\* in order.
C2_OnlyFailedChaptersMissing ==
  (mode = "toc" /\ Terminated) =>
     ChapterUrls = SelectSeq(links, LAMBDA link : link \notin threw)

\* C3: when a chapter failed, the non-zero exit status is raised only after the files
\* of the successful chapters and meta.json have been written.
C3_FailureSignalAfterPersist ==
  (threw # {} /\ exitCode \notin {NoExit, 0}) =>
     /\ metaFile # NoMeta
     /\ \A k \in 1..Len(chapters) :
          \E f \in 1..Len(chapterFiles) : chapterFiles[f].filename = chapters[k].filename

\* the seed URL is missing or is not an http(s) URL
SeedUnusable == ~Truthy(startUrl) \/ ~Loadable(startUrl)

C6_NavEndsAtLastLinkOnly ==
  (mode = "nav" /\ pc \notin {"chapterGoto", "chapterExtract", "chapterAwait", "findNext"}) =>
     /\ ~Follow(nextUrl)
     /\ error \in {"none", "writeMeta"}
     /\ gotoLog # <<>>

\* C7: the image downloads started for a chapter get the indices k, k+1, ..., k+N-1,
\* k the counter before the chapter and N the number of distinct image URLs, each
\* index once; no completion of a download, in any order and with any outcome,
\* changes an assigned index.
C7_ImageIndicesContiguous ==
  [][ /\ (pc = "chapterExtract" /\ pc' = "chapterAwait") =>
           LET N == Cardinality(Range(PageContent(CurUrl).imageUrls))
           IN /\ Len(downloads') = N
              /\ { downloads'[t].index : t \in 1..N } = imageCounter..(imageCounter + N - 1)
              /\ \A t, u \in 1..N : downloads'[t].index = downloads'[u].index => t = u
              /\ \A t \in 1..N : downloads'[t].index = imageCounter + t - 1
      /\ (pc = "chapterAwait" /\ pc' = "chapterAwait") =>
           /\ Len(downloads') = Len(downloads)
           /\ \A t \in 1..Len(downloads) : downloads'[t].index = downloads[t].index
    ]_vars

C7_Witness ==
  /\ pc = "chapterAwait"
  /\ Len(downloads) = 2
  /\ downloads[1].index = 2
  /\ downloads[2].index = 3
  /\ downloads[1].pc = "fetch"
  /\ downloads[2].pc = "done"
  /\ downloads[2].localFile = NoFile

\* img-<index zero-padded to 4 digits>.jpg, for an index below 10000
PaddedImageName(idx) ==
  [prefix |-> "img-",
   digits |-> <<(idx \div 1000) % 10, (idx \div 100) % 10, (idx \div 10) % 10, idx % 10>>,
   ext |-> ".jpg"]

\* the download whose transform changed the URL
IsPlaceholder(d) == d.imgUrl = ThbUrl

\* after the transformed URL's fetch was not ok, the original URL is fetched second
FallbackIssued ==
  \A t \in 1..Len(downloads) :
    LET d == downloads[t]
    IN (IsPlaceholder(d) /\ d.outcomes # <<>> /\ d.outcomes[1] = "notok") =>
         /\ d.fetched = <<StaticUrl, ThbUrl>>
         /\ d.outcomes = <<"notok">> => d.pc = "fallbackFetch"

C9_NullAddsOneToFailedCount ==
  (pc = "chapterAwait" /\ downloads # <<>>) =>
     failedCount = downloads[1].failedAtCall
                     + Cardinality({ t \in 1..Len(downloads) :
                                       downloads[t].pc = "done" /\ downloads[t].localFile = NoFile })

\* C10: a second fetch is made only after the first fetch was not ok for a URL the
\* transform changed; a URL the transform left unchanged whose fetch fails is fetched
\* once and yields null; no image is fetched more than twice.
C10_BoundedRetry ==
  \A t \in 1..Len(downloads) :
    LET d == downloads[t]
    IN /\ Len(d.fetched) \in {1, 2}
       /\ Len(d.fetched) = 2 =>
            (d.imgUrl = ThbUrl /\ d.fetched[1] # d.imgUrl /\ d.outcomes # <<>> /\ d.outcomes[1] = "notok")
       /\ (d.imgUrl \in {StaticUrl, OddUrl, PlainUrl} /\ d.outcomes # <<>>
             /\ d.outcomes[1] \in {"notok", "reject"}) =>
            /\ d.pc = "done"
            /\ d.fetched = <<d.imgUrl>>
            /\ d.localFile = NoFile

C10_Witness ==
  \E t \in 1..Len(downloads) :
    /\ downloads[t].imgUrl = PlainUrl
    /\ downloads[t].outcomes = <<"notok">>
    /\ downloads[t].pc = "done"
    /\ Len(downloads[t].fetched) = 1

\* C11: no outcome of an image's fetch or persistence throws out of downloadImage
\* or saveImage: while image resolutions of a chapter are pending, no step ends
\* the chapter or the run or records an error, every resolution ends with a file
\* name or null, and the step that ends the chapter after them writes the
\* chapter file with the images that did resolve and appends its record.
TaskPcs == {"fetch", "body", "fallbackFetch", "fallbackBody", "save", "done"}

C11_ImageFailureIsSoft ==
  [][/\ \A t \in 1..Len(downloads') :
          /\ downloads'[t].pc \in TaskPcs
          /\ downloads'[t].localFile \in {NoFile, PaddedImageName(downloads'[t].index)}
     /\ (pc = "chapterAwait" /\ \E t \in 1..Len(downloads) : downloads[t].pc # "done")
         => (pc' = "chapterAwait" /\ error' = error /\ exitCode' = exitCode /\ threw' = threw
             /\ chapters' = chapters /\ chapterFiles' = chapterFiles)
     /\ (pc = "chapterAwait" /\ chapters' # chapters)
         => (/\ Len(chapters') = Len(chapters) + 1
             /\ Len(chapterFiles') = Len(chapterFiles) + 1
             /\ Last(chapterFiles').filename = Last(chapters').filename
             /\ Last(chapterFiles').images =
                  { [remote |-> downloads[t].imgUrl, localFile |-> downloads[t].localFile] :
                      t \in { u \in 1..Len(downloads) : downloads[u].localFile # NoFile } })]_vars

\* a chapter whose page has images and whose every image failed is on disk and recorded
C11_Witness ==
  \E k \in 1..Len(chapters) :
    /\ PageContent(chapters[k].url).imageUrls # <<>>
    /\ Len(chapterFiles) >= k
    /\ chapterFiles[k].filename = chapters[k].filename
    /\ chapterFiles[k].images = {}

\* C12: every invocation of main starts with the next image index 0 and the
\* failure count 0, whatever an earlier invocation in the same process did.
C12_InvocationStartsAtZero == pc = "main" => (imageCounter = 0 /\ failedCount = 0)

\* C13: in table-of-contents mode the chapter at position k of meta.chapters
\* (counted from 0) has index k, in every state and in meta.json.
C13_TocIndexIsPosition ==
  mode = "toc" =>
    /\ \A k \in 1..Len(chapters) : chapters[k].index = k - 1 /\ chapters[k].url = links[k]
    /\ metaFile # NoMeta => \A k \in 1..Len(metaFile) : metaFile[k].index = k - 1

\* meta.json of a finished table-of-contents run
C13_Witness == mode = "toc" /\ metaFile # NoMeta /\ Len(metaFile) > TOC_LINK_THRESHOLD

\* C14: in navigation mode the index counts the iterations from 0 for the start
\* URL: the page loaded in iteration n is scraped with index n whether or not
\* it succeeds, and the indices of the recorded chapters strictly increase.
C14_NavIndexCountsIterations ==
  (mode = "nav" /\ gotoLog # <<>>) =>
    /\ gotoLog[1] = startUrl
    /\ index = IF pc \in {"delay", "chapterGoto"} THEN Len(gotoLog) ELSE Len(gotoLog) - 1
    /\ \A k \in 1..Len(chapters) : chapters[k].url = gotoLog[chapters[k].index + 1]
    /\ \A j, k \in 1..Len(chapters) : j < k => chapters[j].index < chapters[k].index

\* the third page of a navigation run fails after two chapters were recorded
C14_Witness ==
  mode = "nav" /\ Len(chapters) = 2 /\ error = "scrapeChapter" /\ Len(gotoLog) = 3 /\ index = 2

\* C15: the image resolutions of a chapter are all started in the step that
\* extracts the chapter, none waiting for another, and the chapter file is
\* written and the chapter recorded only when every one of them has ended.
C15_FanOutFanIn ==
  [][/\ (pc = "chapterExtract" /\ pc' = "chapterAwait")
         => /\ Len(downloads') = Cardinality(Range(extracted'.imageUrls))
            /\ \A t \in 1..Len(downloads') :
                 downloads'[t].pc = "fetch" /\ Len(downloads'[t].fetched) = 1
     /\ (chapterFiles' # chapterFiles \/ chapters' # chapters \/ (pc = "chapterAwait" /\ pc' # pc))
         => \A t \in 1..Len(downloads) : downloads[t].pc = "done"]_vars

\* two resolutions of one chapter under way at once, the later-started one ahead
C15_Witness ==
  /\ Len(downloads) >= 2
  /\ downloads[1].pc = "fetch"
  /\ downloads[2].pc = "save"

\* C16: when the process ends after the browser was launched, the browser has been closed.
C16_BrowserClosedAtEnd == Terminated => ~browserOpen

\* C20: between two consecutive chapter iterations exactly one delay of
\* chapterDelay plus a jitter below 500 ms is awaited, before the later page
\* load starts, and none is awaited after the last chapter of the run.
C20_DelayBetweenChapters ==
  /\ delays = IF pc = "chapterGoto" THEN Len(gotoLog)
              ELSE IF gotoLog = <<>> THEN 0 ELSE Len(gotoLog) - 1
  /\ (delays > 0) => (lastDelay >= DEFAULT_CHAPTER_DELAY /\ lastDelay < DEFAULT_CHAPTER_DELAY + 500)
  /\ (delays = 0) => (lastDelay = 0)

\* finished runs of both modes with the delays between their chapters awaited
C20_Witness ==
  /\ pc = "done"
  /\ Len(chapters) >= 3
  /\ delays = Len(chapters) - 1
  /\ lastDelay = DEFAULT_CHAPTER_DELAY + 499

\* C17: deduplicating an already deduplicated list changes nothing.
C17_DedupIdempotent ==
  [][(call = "deduplicateContentParts" /\ call' = "deduplicateContentParts twice")
     => result' = result]_vars

\* a list that lost fragments in the first pass has gone through the second
C17_Witness ==
  /\ call = "deduplicateContentParts twice"
  /\ Len(result) = 2
  /\ Len(args.contentParts) = 3

\* the key the claim gives a fragment: the source of its image if it contains
\* one, its trimmed text otherwise
ClaimKey(part) ==
  IF \E p \in 1..Len(part) : part[p].k = "img"
  THEN LET first == CHOOSE p \in 1..Len(part) :
                      part[p].k = "img" /\ \A q \in 1..(p - 1) : part[q].k # "img"
       IN IF part[first].v = "" THEN <<>> ELSE <<Txt(part[first].v)>>
  ELSE Trim(SelectSeq(part, IsCharData))

\* the positions of X the claim keeps
ClaimKept(X) ==
  { p \in 1..Len(X) :
      /\ Trim(X[p]) # <<>>
      /\ ClaimKey(X[p]) # <<>>
      /\ \A q \in 1..(p - 1) : ClaimKey(X[q]) # ClaimKey(X[p]) }

RECURSIVE Pick(_, _, _)
\* the subsequence of X at the positions of P, from position p on
Pick(X, P, p) ==
  IF p > Len(X) THEN <<>>
  ELSE (IF p \in P THEN <<X[p]>> ELSE <<>>) \o Pick(X, P, p + 1)

\* C18: the result is the subsequence of the fragments that are non-empty
\* after trimming, have a non-empty key and have no earlier fragment with the
\* same key; no two fragments of the result share a key.
C18_FirstOccurrenceWins ==
  call = "deduplicateContentParts" =>
    /\ result = Pick(args.contentParts, ClaimKept(args.contentParts), 1)
    /\ \A j, k \in 1..Len(result) : j # k => ClaimKey(result[j]) # ClaimKey(result[k])

\* standard resolution of href against the URL base: `new URL(href, base).href`,
\* Null where it throws
BaseDirectory(base) ==
  IF Len(base) <= 3 THEN base \o <<"/">>
  ELSE SubSeq(base, 1, CHOOSE p \in 4..Len(base) :
                         base[p] = "/" /\ \A q \in (p + 1)..Len(base) : base[q] # "/")

StandardResolve(href, base) ==
  CASE Head(href) \in Schemes -> IF UrlParses(href) THEN href ELSE Null
    [] Head(href) = "//" -> IF Len(href) >= 2 /\ href[2] \notin SlashLexemes
                            THEN <<base[1]>> \o href ELSE Null
    [] Head(href) = "/" -> SubSeq(base, 1, 3) \o href
    [] OTHER -> BaseDirectory(base) \o href

\* C19: an href resolves as standard URL resolution against the URL of the page
\* does: root-relative against the origin, document-relative against the
\* directory of the page, protocol-relative with the scheme of the page, and
\* a malformed href to null.
C19_ResolvesAsStandard ==
  call \in {"extractTocLinks", "findNextChapterLink"}
    => result = StandardResolve(args.href, args.pageUrl)

\* C22: a page without a heading, a social-metadata title or content is scraped
\* like any other: extraction returns the title "Untitled" with empty content,
\* and the step that ends the chapter writes the file with that title as its
\* heading and appends the record, recording no error.
C22_EmptyPageIsNotAnError ==
  [][(pc = "chapterAwait" /\ UrlPath(IF mode = "toc" THEN links[i + 1] ELSE currentUrl) \in BlankPagePaths)
     => /\ extracted = [title |-> <<"Untitled">>, html |-> "empty", imageUrls |-> <<>>]
        /\ error = "none"
        /\ chapters' # chapters =>
             /\ Last(chapters').title = <<"Untitled">>
             /\ Last(chapters').url = links[i + 1]
             /\ Len(chapterFiles') = Len(chapterFiles) + 1
             /\ Last(chapterFiles').titleAdded
             /\ Last(chapterFiles').title = <<"Untitled">>
             /\ Last(chapterFiles').filename = Last(chapters').filename
             /\ error' = "none" /\ threw' = threw /\ exitCode' = NoExit]_vars

\* the blank page has its chapter file and its record
C22_Witness ==
  \E k \in 1..Len(chapters) :
    /\ UrlPath(chapters[k].url) \in BlankPagePaths
    /\ chapters[k].title = <<"Untitled">>
    /\ Len(chapterFiles) >= k
    /\ chapterFiles[k].filename = chapters[k].filename
    /\ chapterFiles[k].titleAdded
    /\ error = "none"

C25_IndicesNeverReused ==
  [][/\ imageCounter' >= imageCounter
     /\ \A t \in 1..Len(downloads') :
          /\ downloads'[t].index < imageCounter'
          /\ downloads = <<>> => downloads'[t].index >= imageCounter
          /\ \A u \in 1..(t - 1) : downloads'[u].index < downloads'[t].index
     /\ \A j, k \in 1..Len(imageFiles') : j # k => imageFiles'[j] # imageFiles'[k]
     /\ \A k \in 1..Len(imageFiles') :
          \E n \in 0..(imageCounter' - 1) : imageFiles'[k] = PaddedImageName(n)
     /\ (imageFiles' # imageFiles) =>
          \E t \in 1..Len(downloads) :
            /\ imageFiles' = Append(imageFiles, PaddedImageName(downloads[t].index))
            /\ \A k \in 1..Len(imageFiles) : imageFiles[k] # PaddedImageName(downloads[t].index)]_vars

\* files of three chapters' images on disk although two resolutions failed
C25_Witness ==
  /\ imageCounter = 5
  /\ Len(imageFiles) = 3
  /\ Len(chapters) >= 3
  /\ \E k \in 1..3 : imageFiles[k] = PaddedImageName(4)

\* C29: in navigation mode the URL about to be scraped is the URL of no chapter
\* recorded so far, the start URL included: no URL is loaded twice and the
\* URLs of the recorded chapters are pairwise distinct.
C29_NavNeverRevisits ==
  mode = "nav" =>
    /\ pc \in {"delay", "chapterGoto"} => \A k \in 1..Len(chapters) : chapters[k].url # currentUrl
    /\ \A j, k \in 1..Len(chapters) : j # k => chapters[j].url # chapters[k].url
    /\ \A j, k \in 1..Len(gotoLog) : j # k => gotoLog[j] # gotoLog[k]
    /\ (pc = "finalize" /\ Truthy(nextUrl)) => \E k \in 1..Len(chapters) : chapters[k].url = nextUrl

\* the last page's next link leads back to the start URL and is not followed
C29_Witness ==
  /\ mode = "nav"
  /\ pc = "finalize"
  /\ Len(chapters) >= 2
  /\ nextUrl = startUrl
  /\ chapters[1].url = startUrl

\* C30: a chapter is recorded in the step that has written its file, meta.json
\* is written once, after the traversal, with the chapters recorded by then,
\* each of which has its file, and the recorded file names are pairwise distinct.
C30_RecordsFollowFiles ==
  [][/\ Len(chapters') = Len(chapterFiles')
     /\ \A k \in 1..Len(chapters') : chapterFiles'[k].filename = chapters'[k].filename
     /\ \A j, k \in 1..Len(chapters') : j # k => chapters'[j].filename # chapters'[k].filename
     /\ (chapters' # chapters) =>
          (Len(chapterFiles') = Len(chapterFiles) + 1 /\ metaFile' = NoMeta)
     /\ (metaFile' # metaFile) =>
          /\ metaFile = NoMeta
          /\ pc = "finalize"
          /\ metaFile' = chapters
          /\ currentUrl = Null
          /\ mode = "toc" => i = Len(links)
     /\ (metaFile # NoMeta) => (chapters' = chapters /\ chapterFiles' = chapterFiles)]_vars

\* meta.json of a finished run lists chapters of equal titles under different file names
C30_Witness ==
  /\ metaFile # NoMeta
  /\ Len(metaFile) >= 5
  /\ metaFile[3].title = metaFile[5].title
  /\ metaFile[3].filename # metaFile[5].filename
  /\ chapterFiles[5].filename = metaFile[5].filename

\* C26: the list that is counted against the threshold and traversed is the
\* harvested list in its order without exactly the links that contain a --skip
\* string or do not match the --url-pattern glob; without filters it is the
\* harvested list.
C26_FiltersBeforeClassification ==
  [][/\ (pc = "classify" /\ pc' = "chapterGoto") =>
          /\ \E n \in HarvestCounts :
               LET harvested == [k \in 1..n |-> baseUrl \o <<"/", "ch">> \o DigitLexemes(k)]
                   removed == { p \in 1..n :
                                  \/ \E k \in 1..Len(skipUrls) : Includes(harvested[p], skipUrls[k])
                                  \/ urlPattern # Null /\ ~GlobMatch(urlPattern, harvested[p]) }
               IN /\ links' = Pick(harvested, (1..n) \ removed, 1)
                  /\ (skipUrls = <<>> /\ urlPattern = Null) => links' = harvested
          /\ mode' = IF Len(links') > TOC_LINK_THRESHOLD THEN "toc" ELSE "nav"
     /\ links' # links => pc = "classify"
     /\ (mode' = "toc" /\ gotoLog' # gotoLog) => Last(gotoLog') = links[Len(gotoLog')]]_vars

\* a harvest above the threshold that both filters cut down below it
C26_Witness ==
  /\ skipUrls # <<>>
  /\ urlPattern # Null
  /\ mode = "nav"
  /\ Len(links) = 12
  /\ links[1] = baseUrl \o <<"/", "ch", "1", "0">>
  /\ links[12] = baseUrl \o <<"/", "ch", "2", "2">>

\* the first anchor outside menus whose href, free of fragments, is resolved to
\* url by concatenation with the origin; 0 when there is none
FirstSource(anchors, base, url) ==
  LET from == { p \in 1..Len(anchors) :
                  /\ anchors[p].href # <<>>
                  /\ ~anchors[p].menu
                  /\ \A k \in 1..Len(anchors[p].href) : anchors[p].href[k] # "#"
                  /\ url = (IF Head(anchors[p].href) \in {"http:", "https:"} THEN anchors[p].href
                            ELSE IF Head(anchors[p].href) \in {"/", "//"} THEN base \o anchors[p].href
                            ELSE base \o <<"/">> \o anchors[p].href) }
  IN IF from = {} THEN 0 ELSE CHOOSE p \in from : \A q \in from : p <= q

\* C27: the links returned for a page are pairwise different strings in the
\* order of their first anchors; each has the host of the base URL, a path that
\* is neither "/" nor the path of the page, and an anchor without a fragment
\* that yields it; anchors whose href does not parse are passed over.
C27_TocLinkSet ==
  call = "extractTocLinks(page)" =>
    LET base == SubSeq(args.pageUrl, 1, 3)
        pagePath == SubSeq(args.pageUrl, 4, Len(args.pageUrl))
        src(k) == FirstSource(args.anchors, base, result[k])
    IN /\ \A j, k \in 1..Len(result) : j # k => result[j] # result[k]
       /\ \A k \in 1..Len(result) :
            /\ result[k] # Null
            /\ Len(result[k]) >= 5
            /\ result[k][1] \in {"http:", "https:"}
            /\ result[k][3] = base[3]
            /\ result[k][4] \in {"/", "//"}
            /\ SubSeq(result[k], 4, Len(result[k])) # pagePath
            /\ ~(Len(result[k]) > Len(args.pageUrl)
                  /\ SubSeq(result[k], 4, Len(args.pageUrl) + 1) = pagePath \o <<"?">>)
            /\ src(k) # 0
       /\ \A j, k \in 1..Len(result) : j < k => src(j) < src(k)

\* a page whose anchors repeat a link, hide one in a menu and carry a malformed href
C27_Witness ==
  /\ call = "extractTocLinks(page)"
  /\ Len(args.anchors) = 3
  /\ args.anchors[1].href = <<"http:", "//">>
  /\ args.anchors[2].href = <<"a">>
  /\ args.anchors[3] = [href |-> <<"/", "a">>, menu |-> FALSE]
  /\ result = << <<"https:", "//", "example.com", "/", "a">> >>

\* the callbacks of the events of one kind in cbLog, in order
Logged(kinds) ==
  LET RECURSIVE Pick1(_)
      Pick1(k) == IF k > Len(cbLog) THEN <<>>
                  ELSE (IF cbLog[k].ev \in kinds THEN <<cbLog[k].cb>> ELSE <<>>) \o Pick1(k + 1)
  IN Pick1(1)

\* the process has ended after a signal was delivered to it
EndedOnSignal == signalLog # <<>> /\ (killedBy # "none" \/ exitCode \in {130, 143})

\* the cleanup callbacks are called in registration order, one after the other
\* has finished, and all have finished when the process has exited
CallbacksInOrderBeforeExit ==
  /\ \A k \in 1..Len(Logged({"call"})) : Logged({"call"})[k] = k
  /\ \A k \in 1..Len(Logged({"settled", "threw"})) : Logged({"settled", "threw"})[k] = k
  /\ Len(Logged({"call"})) - Len(Logged({"settled", "threw"})) \in {0, 1}
  /\ exitCode \in {130, 143} =>
       /\ Len(Logged({"call"})) = Len(cleanupCallbacks)
       /\ Len(Logged({"settled", "threw"})) = Len(cleanupCallbacks)

\* C21: when a signal ends a scrape run, the browser has been closed before the
\* process is gone, and the cleanup callbacks have run in registration order
\* and finished before the exit.
C21_SignalClosesBrowser ==
  /\ EndedOnSignal => ~browserOpen
  /\ CallbacksInOrderBeforeExit

\* SIGINT during the first chapter of a scrape run
C21_FailingInput ==
  /\ signalLog = <<"SIGINT">>
  /\ killedBy = "SIGINT"
  /\ browserOpen
  /\ gotoLog # <<>>

\* the handler has run at most once, no callback was called twice, a callback
\* that failed has stopped neither the later ones nor the exit, and the exit
\* status is that of the first signal
ShutdownOnce ==
  /\ Len(handlerCalls) <= 1
  /\ \A j, k \in 1..Len(Logged({"call"})) : j # k => Logged({"call"})[j] # Logged({"call"})[k]
  /\ exitCode # NoExit =>
       /\ signalLog # <<>>
       /\ exitCode = (IF signalLog[1] = "SIGINT" THEN 130 ELSE 143)
       /\ \A k \in 1..Len(cleanupCallbacks) : \E e \in 1..Len(cbLog) : cbLog[e] = [ev |-> "call", cb |-> k]
  /\ (isExiting /\ Len(Logged({"call"})) = Len(Logged({"settled", "threw"}))) => exitCode \in {130, 143}

\* C28: the shutdown handler runs at most once per process; a signal delivered
\* once the exiting flag is set, also while a callback is awaited, starts
\* nothing; each callback is called at most once, the exit status is 130 or 143
\* after the first signal, and a failing callback stops neither the later
\* callbacks nor the exit.
C28_ShutdownRunsOnce ==
  [][/\ ShutdownOnce'
     /\ (isExiting /\ signalLog' # signalLog) =>
           UNCHANGED <<isExiting, handlerCalls, cbLog, exitCode, killedBy, cleanupCallbacks>>]_vars

\* SIGINT, then SIGTERM while a callback is awaited; the first callback threw
C28_Witness ==
  /\ signalLog = <<"SIGINT", "SIGTERM">>
  /\ cleanupCallbacks = <<"throws", "rejects">>
  /\ Logged({"call"}) = <<1, 2>>
  /\ exitCode = 130

\* C23: the steps are started in the order scrape, merge, pdf, each only after
\* the one before it ended with status 0; after a failed step no step is
\* started and the process has exited with 1; the completion message is printed
\* only after three successful steps.
C23_PipelineInOrder ==
  /\ Len(ran) <= 3
  /\ \A k \in 1..Len(ran) :
       /\ ran[k].command.script = <<"src/scrape.ts", "src/merge.ts", "src/pdf.ts">>[k]
       /\ k < Len(ran) => ran[k].status = 0
  /\ (ran # <<>> /\ ran[Len(ran)].status # 0) => (pipeExit = 1 /\ ~complete)
  /\ complete => (Len(ran) = 3 /\ \A k \in 1..3 : ran[k].status = 0)
  /\ (Len(ran) = 3 /\ ran[3].status = 0) => pipeExit = NoExit

\* scrape succeeded, merge failed: pdf was never started
C23_Witness ==
  /\ Len(ran) = 2
  /\ ran[1].status = 0
  /\ ran[2].status = 1
  /\ ran[2].command.name = "My Book"
  /\ pipeExit = 1
  /\ pipePc = "exited"

====
